---- MODULE Spec2Model ----
(***************************************************************************)
(* ClawCloud auto login (scripts/auto_login.py): the login orchestration   *)
(* of AutoLogin.run with the Telegram relay, the secret updater, the       *)
(* region resolver and the Hysteria2 tunnel, as one sequential process.    *)
(*                                                                         *)
(* A URL is a sequence of tokens; the tokens are cut so that every         *)
(* substring the code looks for ('claw.cloud', 'github.com/login', ...)    *)
(* is a run of whole tokens, and `x in url` is Contains(url, x).          *)
(***************************************************************************)
EXTENDS Integers, Sequences, FiniteSets, TLC

\* ------------------------------------------------------------ constants
DEVICE_VERIFY_WAIT == 30
TWO_FACTOR_WAIT == 120
REDIRECT_WAIT == 60
LOG_TAIL == 6
NUM_OTP_SELECTORS == 6
CODE_MIN_DIGITS == 6
CODE_MAX_DIGITS == 8
POLL_SLEEP == 2
LONG_POLL == 20

\* ------------------------------------------------------------ bounds
\* the longest update stream the bot has pending at api.telegram.org
MaxUpdates == 2
\* how many Telegram.send and Telegram.photo calls are taken apart
MaxCalls == 3
\* how many detect_region calls in a row are taken alone
MaxDetects == 3

\* ------------------------------------------------------------ strings
Contains(s, p) ==
    \E k \in 0..(Len(s) - Len(p)) : SubSeq(s, k + 1, k + Len(p)) = p

EndsWith(s, suf) ==
    /\ Len(s) >= Len(suf)
    /\ SubSeq(s, Len(s) - Len(suf) + 1, Len(s)) = suf

\* str.replace(old, ''): every occurrence of old removed, left to right
RECURSIVE Remove(_, _)
Remove(s, old) ==
    IF Len(s) < Len(old) \/ Len(old) = 0 THEN s
    ELSE IF SubSeq(s, 1, Len(old)) = old
         THEN Remove(SubSeq(s, Len(old) + 1, Len(s)), old)
         ELSE <<Head(s)>> \o Remove(Tail(s), old)

\* str.lower(), token by token
LowerTok(t) ==
    CASE t = "SignIn" -> "signin"
      [] OTHER -> t

Lower(s) == [k \in 1..Len(s) |-> LowerTok(s[k])]

\* index of the first token of s that is in set, or Len(s) + 1
RECURSIVE FirstIn(_, _, _)
FirstIn(s, set, k) ==
    IF k > Len(s) THEN k
    ELSE IF s[k] \in set THEN k ELSE FirstIn(s, set, k + 1)

\* urllib.parse.urlparse: scheme, netloc and path of scheme://netloc/path?query
urlparse(url) ==
    LET c == FirstIn(url, {"://"}, 1)
        rest == IF c > Len(url) THEN <<>> ELSE SubSeq(url, c + 1, Len(url))
        e == FirstIn(rest, {"/", "?", "#"}, 1)
        after == SubSeq(rest, e, Len(rest))
        q == FirstIn(after, {"?", "#"}, 1)
    IN  [scheme |-> IF c > Len(url) THEN <<>> ELSE SubSeq(url, 1, c - 1),
         netloc |-> SubSeq(rest, 1, e - 1),
         path   |-> SubSeq(after, 1, q - 1)]

\* ------------------------------------------------------------ locations
HTTPS == <<"https", "://">>
CLAW == <<"claw", ".", "cloud">>
CONSOLE_SUFFIX == <<".", "console", ".", "claw", ".", "cloud">>
GITHUB == HTTPS \o <<"github", ".", "com">>

LOGIN_ENTRY_URL == HTTPS \o <<"us-west-1", ".", "run", ".">> \o CLAW
SIGNIN_URL == LOGIN_ENTRY_URL \o <<"/", "signin">>

U_SIGNIN_CAPS == LOGIN_ENTRY_URL \o <<"/", "SignIn">>
U_REGION_A == HTTPS \o <<"ap-southeast-1">> \o CONSOLE_SUFFIX \o <<"/">>
U_REGION_B == HTTPS \o <<"eu-central-1">> \o CONSOLE_SUFFIX \o <<"/", "apps">>
U_PLAIN == HTTPS \o <<"console", ".", "run", ".">> \o CLAW \o <<"/", "apps">>
U_PATH_REGION ==
    HTTPS \o <<"console", ".", "run", ".">> \o CLAW
          \o <<"/", "region", "/", "ap-southeast-1", "/", "x">>
U_GH_LOGIN == GITHUB \o <<"/", "login">>
U_GH_DEVICE == GITHUB \o <<"/", "session", "s", "/", "verified-device">>
U_GH_DEVICE_ALT == GITHUB \o <<"/", "session", "s", "/", "device-verification">>
U_GH_2FA_MOBILE ==
    GITHUB \o <<"/", "session", "s", "/", "two-factor", "/", "mobile">>
U_GH_2FA_APP ==
    GITHUB \o <<"/", "session", "s", "/", "two-factor", "/", "app">>
U_GH_2FA_RETURN == U_GH_2FA_MOBILE \o <<"?return_to=">> \o GITHUB \o <<"/", "login">>
U_GH_AUTHORIZE ==
    GITHUB \o <<"/", "login", "/", "oauth", "/", "authorize", "?", "client_id=x">>
U_GH_AUTHORIZE_CB ==
    U_GH_AUTHORIZE \o <<"&redirect_uri=", "https", "%3A%2F%2F", "us-west-1",
                        ".", "run", ".">> \o CLAW \o <<"%2F", "callback">>

\* the locations the browser can report
URLS ==
    { SIGNIN_URL, U_SIGNIN_CAPS, U_REGION_A, U_REGION_B, U_PLAIN, U_PATH_REGION,
      U_GH_LOGIN, U_GH_DEVICE, U_GH_DEVICE_ALT, U_GH_2FA_MOBILE, U_GH_2FA_APP,
      U_GH_2FA_RETURN, U_GH_AUTHORIZE, U_GH_AUTHORIZE_CB }

\* ------------------------------------------------------------ state
VARIABLES
    pc,               \* position of the single thread of control in run()
    i,                \* the loop variable of the loop pc is in
    exitCode,         \* 0 until sys.exit(1) or an uncaught exception sets it
    creds,            \* GH_USERNAME and GH_PASSWORD are both set
    gh_session,       \* GH_SESSION supplied at start, None when absent
    tg_ok,            \* Telegram.ok: TG_BOT_TOKEN and TG_CHAT_ID are both set
    proxy_enabled,    \* Hysteria2Proxy.enabled
    proxy_process,    \* Hysteria2Proxy.process: "none", "running", "dead", "stopped"
    context_proxy,    \* the browser context was created with the local proxy
    browser,          \* "none", "open", "closed"
    loc,              \* the value of page.url the run last acted on, BLANK when
                      \* the function that read it has returned
    fast,             \* run() took the already-logged-in branch
    detected_region,  \* AutoLogin.detected_region, None when absent
    region_base_url,  \* AutoLogin.region_base_url, None when absent
    base_url,         \* keepalive's local base_url
    navs,             \* the targets of the page.goto calls of keepalive, in order
    logs,             \* the last LOG_TAIL lines of AutoLogin.logs
    sent,             \* the Telegram.send calls, in order: [text, route]
    posts,            \* the requests.post calls of Telegram.send and photo, in
                      \* order: [call, route]; kept where a call is taken apart
    region_ret,       \* what detect_region returned, kept where the call is
                      \* taken alone
    nPrompt,          \* how many of updates were pending when the code prompt
                      \* was relayed, kept where wait_code is taken alone
    reloads,          \* the page.reload calls of the wait_two_factor_mobile under
                      \* way, 0 again once it has returned
    reminders,        \* the reminder screenshots of the wait_two_factor_mobile
                      \* under way, 0 again once it has returned
    notified,         \* the ok argument of each notify call, in order
    updates,          \* the bot's pending update stream at api.telegram.org
    nOld,             \* how many of updates were pending before flush_updates ran
    offset,           \* wait_code's offset
    code,             \* [id, token] of the update wait_code returned, None when none
    submits,          \* how often handle_2fa_code_input has filled in and submitted
                      \* the code, 0 again once login_github has moved on
    new,              \* the value get_session returned, None when none
    stored,           \* what SecretUpdater.update did: "", "stored", "failed"
    entered,          \* the functions and stages the run has entered so far
    failure,          \* the fatal failure that ended the run, "" when none
    devRet,           \* where wait_device returned: "", "poll", "budget", "timeout"
    tfRet,            \* what wait_two_factor_mobile returned: "", "approved", "login", "timeout"
    tfStayed          \* every poll of wait_two_factor_mobile saw the GitHub Mobile page

vars ==
    << pc, i, exitCode, creds, gh_session, tg_ok, proxy_enabled, proxy_process,
       context_proxy, browser, loc, fast, detected_region, region_base_url, base_url, navs,
       logs, sent, posts, region_ret, nPrompt, reloads, reminders,
       notified, updates, nOld, offset, code, submits, new, stored,
       entered, failure, devRet, tfRet, tfStayed >>

config == << creds, gh_session, tg_ok >>
pushwait == << reloads, reminders >>
proxy == << proxy_enabled, proxy_process, context_proxy >>
region == << detected_region, region_base_url >>
keep == << base_url, navs >>
relay == << updates, nOld, offset, code, submits >>
cookie == << new, stored >>
ghosts == << devRet, tfRet, tfStayed >>

None == <<>>
S_OLD == <<"sess", "-", "old">>
S_NEW == <<"sess", "-", "new">>

\* ------------------------------------------------------------ log, relay
\* the lines that carry the credential's excerpt or report what became of it
\* keep their text; of any other line the model keeps only that it was logged
CREDENTIAL_LINES == {"new_cookie", "secret_updated", "cookie_relayed"}
line_text(line) == IF Head(line) \in CREDENTIAL_LINES THEN line ELSE <<"line">>

\* AutoLogin.log: the line is appended; the model keeps the tail notify reads
log(l, line) ==
    LET a == Append(l, line_text(line))
    IN  IF Len(a) > LOG_TAIL THEN SubSeq(a, Len(a) - LOG_TAIL + 1, Len(a)) ELSE a

RECURSIVE logAll(_, _)
logAll(l, lines) ==
    IF lines = <<>> THEN l ELSE logAll(log(l, Head(lines)), Tail(lines))

RECURSIVE Flatten(_)
Flatten(ls) == IF ls = <<>> THEN <<>> ELSE Head(ls) \o Flatten(Tail(ls))

get_proxies_always(enabled) == "socks5"
\* Telegram._get_proxies
get_proxies(enabled) == IF enabled THEN "socks5" ELSE "direct"

\* Telegram.send: nothing leaves when the relay is not configured
tg_send(s, text, ok, enabled) ==
    Append(s, [text |-> text,
               route |-> IF ok THEN get_proxies(enabled) ELSE "not_sent"])

\* the text of the status message of notify
status_text(ok, err, dr, enabled, l) ==
    <<"status", IF ok THEN "success" ELSE "failed">>
        \o (IF dr # None THEN <<"region">> \o dr ELSE <<>>)
        \o (IF enabled THEN <<"proxy">> ELSE <<>>)
        \o (IF err # "" THEN <<"error", err>> ELSE <<>>)
        \o <<"logs">> \o Flatten(l)

\* AutoLogin.notify
notify(s, ok, err, tgok, dr, enabled, l) ==
    IF ~tgok THEN s
    ELSE tg_send(s, status_text(ok, err, dr, enabled, l), tgok, enabled)

\* ------------------------------------------------------------ region resolver
REGION_CODES == {"ap-southeast-1", "eu-central-1", "us-west-1"}

path_region_only_region(path) ==
    LET hits == { k \in 1..(Len(path) - 3) :
                    /\ path[k] = "/"
                    /\ path[k + 1] = "region"
                    /\ path[k + 2] = "/"
                    /\ path[k + 3] \in REGION_CODES }
    IN  IF hits = {} THEN None
        ELSE <<path[(CHOOSE k \in hits : \A h \in hits : k <= h) + 3]>>
\* re.search(r'/(?:region|r)/([a-z]+-[a-z]+-\d+)', path): the first match's group
path_region(path) ==
    LET hits == { k \in 1..(Len(path) - 3) :
                    /\ path[k] = "/"
                    /\ path[k + 1] \in {"region", "r"}
                    /\ path[k + 2] = "/"
                    /\ path[k + 3] \in REGION_CODES }
    IN  IF hits = {} THEN None
        ELSE <<path[(CHOOSE k \in hits : \A h \in hits : k <= h) + 3]>>

\* AutoLogin.detect_region(url), on the fields dr = detected_region and
\* rb = region_base_url and the log l
detect_region(url, dr, rb, l) ==
    LET parsed == urlparse(url)
        host == parsed.netloc
        sub == Remove(host, CONSOLE_SUFFIX)
        m == path_region(parsed.path)
    IN  IF EndsWith(host, CONSOLE_SUFFIX) /\ sub # <<>> /\ sub # <<"console">>
        THEN [ret |-> sub, dr |-> sub, rb |-> HTTPS \o host,
              logs |-> logAll(l, << <<"region">> \o sub,
                                    <<"region_url">> \o HTTPS \o host >>)]
        ELSE IF /\ \/ Contains(host, <<"console", ".", "run", ".">> \o CLAW)
                   \/ Contains(host, CLAW)
                /\ m # None
        THEN [ret |-> m, dr |-> m, rb |-> HTTPS \o m \o CONSOLE_SUFFIX,
              logs |-> log(l, <<"region_from_path">> \o m)]
        ELSE [ret |-> None, dr |-> dr, rb |-> parsed.scheme \o <<"://">> \o host,
              logs |-> log(l, <<"no_region">> \o host)]

\* AutoLogin.get_base_url
get_base_url(rb) == IF rb # None THEN rb ELSE LOGIN_ENTRY_URL

\* ------------------------------------------------------------ the tests on page.url
already_logged_in_anywhere(url) == ~Contains(Lower(url), <<"signin">>)
\* run: the first location is already a logged-in one
already_logged_in(url) ==
    ~Contains(Lower(url), <<"signin">>) /\ Contains(url, CLAW)

\* run: the location after the provider click needs login_github
at_github_login(url) ==
    \/ Contains(url, <<"github", ".", "com", "/", "login">>)
    \/ Contains(url, <<"github", ".", "com", "/", "session">>)

\* oauth, wait_redirect, run: the authorization-consent page
at_authorize(url) ==
    Contains(url, <<"github", ".", "com", "/", "login", "/", "oauth", "/", "authorize">>)

\* login_github, wait_device's poll: the device-verification pattern
at_device_verification(url) ==
    \/ Contains(url, <<"verified-device">>)
    \/ Contains(url, <<"device-verification">>)

\* wait_device after the loop: the location still counts as device verification
device_still_pending(url) == Contains(url, <<"verified-device">>)

\* login_github: some two-factor page, and the GitHub Mobile one
at_two_factor(url) == Contains(url, <<"two-factor">>)
at_two_factor_mobile(url) == Contains(url, <<"two-factor", "/", "mobile">>)

\* wait_two_factor_mobile, handle_2fa_code_input: inside the two-factor flow
in_two_factor_flow(url) ==
    Contains(url, <<"github", ".", "com", "/", "session", "s", "/", "two-factor", "/">>)

\* wait_two_factor_mobile: what one poll of the location decides
two_factor_poll(url) ==
    IF ~in_two_factor_flow(url) THEN "approved"
    ELSE IF Contains(url, <<"github", ".", "com", "/", "login">>) THEN "login"
    ELSE "wait"

\* wait_redirect: the location has reached claw.cloud
redirected(url) ==
    Contains(url, CLAW) /\ ~Contains(Lower(url), <<"signin">>)

\* run, step 5: the location after the redirect fails the verification
verify_fails(url) ==
    ~Contains(url, CLAW) \/ Contains(Lower(url), <<"signin">>)

\* ------------------------------------------------------------ start
BLANK == <<"about:blank">>

Init ==
    /\ pc = "start"
    /\ i = 0
    /\ exitCode = 0
    /\ creds \in BOOLEAN
    /\ gh_session \in {None, S_OLD}
    /\ tg_ok \in BOOLEAN
    /\ proxy_enabled \in BOOLEAN
    /\ proxy_process = "none"
    /\ context_proxy = FALSE
    /\ browser = "none"
    /\ loc = BLANK
    /\ fast = FALSE
    /\ detected_region = None
    /\ region_base_url = None
    /\ base_url = None
    /\ navs = <<>>
    /\ logs = <<>>
    /\ sent = <<>>
    /\ posts = <<>>
    /\ region_ret = None
    /\ nPrompt = 0
    /\ reloads = 0
    /\ reminders = 0
    /\ notified = <<>>
    /\ updates = <<>>
    /\ nOld = 0
    /\ offset = 0
    /\ code = None
    /\ submits = 0
    /\ new = None
    /\ stored = ""
    /\ entered = {}
    /\ failure = ""
    /\ devRet = ""
    /\ tfRet = ""
    /\ tfStayed = FALSE

\* ------------------------------------------------------------ failures
RunFails_exit_zero(kind, err, l, s) ==
    /\ notified' = Append(notified, FALSE)
    /\ sent' = notify(s, FALSE, err, tg_ok, detected_region, proxy_enabled, l)
    /\ logs' = l
    /\ exitCode' = 0
    /\ failure' = kind
    /\ pc' = "close_browser"
\* run, inside the inner try: notify(False, err), then sys.exit(1), which the
\* except clause lets through to the two finally clauses
RunFails(kind, err, l, s) ==
    /\ notified' = Append(notified, FALSE)
    /\ sent' = notify(s, FALSE, err, tg_ok, detected_region, proxy_enabled, l)
    /\ logs' = l
    /\ exitCode' = 1
    /\ failure' = kind
    /\ pc' = "close_browser"

\* run's except clause: an exception raised by a browser call of a stage
Raise(l, s) == RunFails("exception", "exception", log(l, <<"exception">>), s)

\* run: login_github returned False
LoginFails(l, s) == RunFails("login_failed", "github_login_failed", l, s)

\* ------------------------------------------------------------ proxy tunnel
PROXY_OUTCOMES ==
    {"started", "unparsable", "died", "no_binary", "launch_error", "egress_failed"}

hy2_stop_nothing(process) == process
\* Hysteria2Proxy.stop on the process field
hy2_stop(process) == IF process = "running" THEN "stopped" ELSE process

\* Hysteria2Proxy.start when enabled: what it returns and the process it leaves
hy2_start(outcome) ==
    [ret |-> outcome = "started",
     process |-> CASE outcome = "started" -> "running"
                   [] outcome = "died" -> "dead"
                   [] outcome = "egress_failed" -> hy2_stop("running")
                   [] OTHER -> "none"]

\* ------------------------------------------------------------ run: start
credentials_missing_never(c) == FALSE
\* run: not self.username or not self.password
credentials_missing(c) == ~c

\* run: the header lines, then the credential check
check_credentials ==
    /\ pc = "start"
    /\ LET l == logAll(logs, << <<"username">>, <<"session">>, <<"password">>,
                               <<"proxy">>, <<"entry">> >>)
       IN  IF credentials_missing(creds)
           THEN /\ logs' = log(l, <<"no_credentials">>)
                /\ notified' = Append(notified, FALSE)
                /\ sent' = notify(sent, FALSE, "no_credentials", tg_ok,
                                  detected_region, proxy_enabled, logs')
                /\ exitCode' = 1
                /\ failure' = "missing_credentials"
                /\ pc' = "exited"
           ELSE /\ logs' = l
                /\ pc' = "proxy"
                /\ UNCHANGED << notified, sent, exitCode, failure >>
    /\ UNCHANGED << i, config, posts, region_ret, nPrompt, pushwait, proxy, browser, loc, fast, region, keep, relay,
                    cookie, entered, ghosts >>

\* run: proxy.start(); a failed start only disables the proxy
start_proxy ==
    /\ pc = "proxy"
    /\ IF proxy_enabled
       THEN \E o \in PROXY_OUTCOMES :
              LET r == hy2_start(o)
              IN  /\ proxy_process' = r.process
                  /\ proxy_enabled' = r.ret
                  /\ logs' = IF r.ret THEN logs ELSE log(logs, <<"proxy_failed">>)
                  /\ entered' = IF r.ret THEN entered
                                 ELSE entered \cup {"proxy_start_failed"}
                  /\ UNCHANGED context_proxy
       ELSE UNCHANGED << proxy, logs, entered >>
    /\ pc' = "launch"
    /\ UNCHANGED << i, exitCode, config, posts, region_ret, nPrompt, pushwait, browser, loc, fast, region, keep, sent,
                    notified, relay, cookie, failure, ghosts >>

\* Hysteria2Proxy.get_playwright_proxy: a proxy setting only when enabled
get_playwright_proxy(enabled) == enabled

\* run: chromium.launch, new_context, new_page, all outside the inner try, so an
\* exception of theirs leaves the with block and reaches only the outer finally
launch_browser ==
    /\ pc = "launch"
    /\ \/ /\ browser' = "open"
          /\ context_proxy' = get_playwright_proxy(proxy_enabled)
          /\ logs' = IF proxy_enabled THEN log(logs, <<"playwright_proxy">>) ELSE logs
          /\ pc' = "signin"
          /\ UNCHANGED << exitCode, failure >>
       \/ /\ browser' \in {"none", "open"}
          /\ exitCode' = 1
          /\ failure' = "launch"
          /\ pc' = "playwright_exit"
          /\ UNCHANGED << logs, context_proxy >>
    /\ UNCHANGED << i, config, posts, region_ret, nPrompt, pushwait, proxy_enabled, proxy_process, loc, fast, region, keep,
                    sent, notified, relay, cookie, entered, ghosts >>

\* run: an exception leaves with sync_playwright() before the inner try; the
\* context manager stops Playwright, which ends a browser it had launched
playwright_exit ==
    /\ pc = "playwright_exit"
    /\ browser' = IF browser = "open" THEN "closed" ELSE browser
    /\ pc' = "stop_proxy"
    /\ UNCHANGED << i, exitCode, config, posts, region_ret, nPrompt, pushwait, proxy, loc, fast, region, keep, logs, sent,
                    notified, relay, cookie, entered, failure, ghosts >>

\* run, step 1: preload the cookie, open the sign-in page, look at the location
open_signin ==
    /\ pc = "signin"
    /\ LET l1 == IF gh_session # None THEN log(logs, <<"cookie_loaded">>) ELSE logs
           l2 == log(l1, <<"step1">>)
       IN  \/ /\ Raise(l2, sent)
              /\ UNCHANGED << loc, fast, region, entered >>
           \/ \E u \in URLS :
                LET l3 == log(l2, <<"current_url">>)
                    d == detect_region(u, detected_region, region_base_url,
                                       log(l3, <<"logged_in">>))
                IN  /\ loc' = u
                    /\ IF already_logged_in(u)
                       THEN /\ fast' = TRUE
                            /\ detected_region' = d.dr
                            /\ region_base_url' = d.rb
                            /\ logs' = d.logs
                            /\ entered' = entered \cup {"detect_region"}
                            /\ pc' = "keepalive"
                       ELSE /\ logs' = log(l3, <<"step2">>)
                            /\ pc' = "click_github"
                            /\ UNCHANGED << fast, region, entered >>
                    /\ UNCHANGED << exitCode, failure, notified, sent >>
    /\ UNCHANGED << i, config, posts, region_ret, nPrompt, pushwait, proxy, browser, keep, relay, cookie, ghosts >>

\* run, steps 2 and 3: click the GitHub button and branch on the location
click_github ==
    /\ pc = "click_github"
    /\ \/ /\ RunFails("no_github_button", "no_github_button",
                      log(logs, <<"no_button">>), sent)
          /\ entered' = entered \cup {"click"}
          /\ UNCHANGED loc
       \/ /\ Raise(log(logs, <<"clicked">>), sent)
          /\ entered' = entered \cup {"click"}
          /\ UNCHANGED loc
       \/ \E u \in URLS, v \in URLS, ex \in BOOLEAN :
            LET l == logAll(logs, << <<"clicked">>, <<"current_url">>, <<"step3">> >>)
            IN  IF at_github_login(u)
                THEN /\ v = u /\ ~ex
                     /\ loc' = u
                     /\ logs' = l
                     /\ pc' = "login_github"
                     /\ entered' = entered \cup {"click"}
                     /\ UNCHANGED << exitCode, failure, notified, sent >>
                ELSE IF at_authorize(u)
                THEN \* oauth(page), whose wait for the network may raise
                     /\ loc' = v
                     /\ entered' = entered \cup {"click", "oauth"}
                     /\ IF ex
                        THEN Raise(logAll(l, << <<"cookie_valid">>, <<"oauth">> >>), sent)
                        ELSE /\ logs' = logAll(l, << <<"cookie_valid">>, <<"oauth">>,
                                                     <<"step4">> >>)
                             /\ pc' = "wait_redirect"
                             /\ UNCHANGED << exitCode, failure, notified, sent >>
                ELSE /\ v = u /\ ~ex
                     /\ loc' = u
                     /\ logs' = log(l, <<"step4">>)
                     /\ pc' = "wait_redirect"
                     /\ entered' = entered \cup {"click"}
                     /\ UNCHANGED << exitCode, failure, notified, sent >>
    /\ i' = 0
    /\ UNCHANGED << config, posts, region_ret, nPrompt, pushwait, proxy, browser, fast, region, keep, relay, cookie, ghosts >>

\* login_github up to the branch on the location after the submit
login_github ==
    /\ pc = "login_github"
    /\ entered' = entered \cup {"login_github"}
    /\ LET l == log(logs, <<"login_github">>)
       IN  \/ \* filling a field raised: logged, login_github returns False
              /\ LoginFails(log(l, <<"input_failed">>), sent)
              /\ UNCHANGED loc
           \/ \* the wait for the network raised
              /\ Raise(log(l, <<"credentials_entered">>), sent)
              /\ UNCHANGED loc
           \/ \E u \in URLS :
                /\ loc' = u
                /\ logs' = logAll(l, << <<"credentials_entered">>, <<"current_url">> >>)
                /\ pc' = IF at_device_verification(u) THEN "device_begin" ELSE "two_factor"
                /\ UNCHANGED << exitCode, failure, notified, sent >>
    /\ UNCHANGED << i, config, posts, region_ret, nPrompt, pushwait, proxy, browser, fast, region, keep, relay, cookie, ghosts >>

\* ------------------------------------------------------------ device verification
\* wait_device: the announcement before the loop
device_begin ==
    /\ pc = "device_begin"
    /\ logs' = log(logs, <<"device_needed">>)
    /\ sent' = tg_send(sent, <<"device_needed">>, tg_ok, proxy_enabled)
    /\ entered' = entered \cup {"wait_device"}
    /\ i' = 0
    /\ pc' = "wait_device"
    /\ UNCHANGED << exitCode, config, posts, region_ret, nPrompt, pushwait, proxy, browser, loc, fast, region, keep,
                    notified, relay, cookie, failure, ghosts >>

\* wait_device: one pass of for i in range(DEVICE_VERIFY_WAIT); every fifth pass
\* reads the location, u, and reloads the page when u is still the pattern
wait_device ==
    /\ pc = "wait_device"
    /\ i < DEVICE_VERIFY_WAIT
    /\ IF i % 5 = 0
       THEN \E u \in URLS :
              /\ IF ~at_device_verification(u)
                 THEN /\ loc' = u
                      /\ logs' = logAll(logs, << <<"waiting">>, <<"device_ok">> >>)
                      /\ sent' = tg_send(sent, <<"device_ok">>, tg_ok, proxy_enabled)
                      /\ devRet' = "poll"
                      /\ pc' = "after_device"
                      /\ i' = 0
                 ELSE /\ logs' = log(logs, <<"waiting">>)
                      /\ i' = i + 1
                      /\ UNCHANGED << loc, sent, devRet, pc >>
       ELSE /\ i' = i + 1
            /\ UNCHANGED << loc, logs, sent, devRet, pc >>
    /\ UNCHANGED << exitCode, config, posts, region_ret, nPrompt, pushwait, proxy, browser, fast, region, keep, notified,
                    relay, cookie, entered, failure, tfRet, tfStayed >>

\* wait_device after the loop: the last look at the location, u
wait_device_end ==
    /\ pc = "wait_device"
    /\ i = DEVICE_VERIFY_WAIT
    /\ \E u \in URLS :
         /\ loc' = u
         /\ IF ~device_still_pending(u)
            THEN /\ devRet' = "budget"
                 /\ pc' = "after_device"
                 /\ UNCHANGED << logs, sent, notified, exitCode, failure >>
            ELSE /\ devRet' = "timeout"
                 /\ LoginFails(log(logs, <<"device_timeout">>),
                               tg_send(sent, <<"device_timeout">>, tg_ok, proxy_enabled))
    /\ i' = 0
    /\ UNCHANGED << config, posts, region_ret, nPrompt, pushwait, proxy, browser, fast, region, keep, relay,
                    cookie, entered, tfRet, tfStayed >>

\* login_github after wait_device returned True: settle, screenshot; the next
\* statement reads the location anew
after_device ==
    /\ pc = "after_device"
    /\ \/ /\ Raise(logs, sent)
          /\ UNCHANGED loc
       \/ /\ loc' \in URLS
          /\ pc' = "two_factor"
          /\ UNCHANGED << logs, sent, notified, exitCode, failure >>
    /\ UNCHANGED << i, config, posts, region_ret, nPrompt, pushwait, proxy, browser, fast, region, keep, relay, cookie,
                    entered, ghosts >>

\* ------------------------------------------------------------ two-factor
\* login_github: which two-factor handler, if any
check_two_factor ==
    /\ pc = "two_factor"
    /\ IF at_two_factor(loc)
       THEN /\ logs' = log(logs, <<"two_factor_needed">>)
            /\ pc' = IF at_two_factor_mobile(loc) THEN "mobile_begin" ELSE "code_begin"
       ELSE /\ pc' = "flash"
            /\ UNCHANGED logs
    /\ UNCHANGED << i, exitCode, config, posts, region_ret, nPrompt, pushwait, proxy, browser, loc, fast, region, keep,
                    sent, notified, relay, cookie, entered, failure, ghosts >>

\* wait_two_factor_mobile: the announcement before the loop
mobile_begin ==
    /\ pc = "mobile_begin"
    /\ logs' = log(logs, <<"mobile_needed">>)
    /\ sent' = tg_send(sent, <<"mobile_needed">>, tg_ok, proxy_enabled)
    /\ entered' = entered \cup {"wait_two_factor_mobile"}
    /\ i' = 0
    /\ tfStayed' = TRUE
    /\ pc' = "wait_mobile"
    /\ UNCHANGED << exitCode, config, posts, region_ret, nPrompt, pushwait, proxy, browser, loc, fast, region, keep,
                    notified, relay, cookie, failure, devRet, tfRet >>

\* wait_two_factor_mobile: one pass of for i in range(TWO_FACTOR_WAIT); u is the
\* location read after the sleep; every 10th pass logs, every 30th reloads
\* wait_two_factor_mobile: i % 10 == 0 and i != 0, the log line and the
\* reminder screenshot
reminder_due(k) == k % 10 = 0 /\ k # 0

reload_due_every_ten(k) == k % 10 = 0 /\ k # 0
\* wait_two_factor_mobile: i % 30 == 0 and i != 0, the reload
reload_due(k) == k % 30 = 0 /\ k # 0

wait_two_factor_mobile ==
    /\ pc = "wait_mobile"
    /\ i < TWO_FACTOR_WAIT
    /\ \E u \in URLS :
         LET r == two_factor_poll(u)
         IN  /\ tfStayed' = (tfStayed /\ at_two_factor_mobile(u))
             /\ IF r = "approved"
                THEN /\ loc' = u
                     /\ logs' = log(logs, <<"two_factor_ok">>)
                     /\ sent' = tg_send(sent, <<"two_factor_ok">>, tg_ok, proxy_enabled)
                     /\ tfRet' = "approved"
                     /\ pc' = "after_two_factor"
                     /\ i' = 0
                     /\ reloads' = 0 /\ reminders' = 0
                     /\ UNCHANGED << notified, exitCode, failure >>
                ELSE IF r = "login"
                THEN /\ loc' = u
                     /\ tfRet' = "login"
                     /\ LoginFails(log(logs, <<"back_at_login">>), sent)
                     /\ i' = 0
                     /\ reloads' = 0 /\ reminders' = 0
                ELSE /\ logs' = IF reminder_due(i)
                                THEN log(logs, <<"waiting">>) ELSE logs
                     /\ reminders' = IF reminder_due(i) THEN reminders + 1
                                     ELSE reminders
                     /\ reloads' = IF reload_due(i) THEN reloads + 1 ELSE reloads
                     /\ i' = i + 1
                     /\ UNCHANGED << loc, sent, tfRet, pc, notified, exitCode, failure >>
    /\ UNCHANGED << config, posts, region_ret, nPrompt, proxy, browser, fast, region, keep, relay, cookie,
                    entered, devRet >>

two_factor_timeout_approves ==
    /\ pc = "wait_mobile"
    /\ i = TWO_FACTOR_WAIT
    /\ tfRet' = "approved"
    /\ pc' = "after_two_factor"
    /\ i' = 0
    /\ reloads' = 0 /\ reminders' = 0
    /\ UNCHANGED << exitCode, config, posts, region_ret, nPrompt, proxy, browser, loc, fast, region, keep, logs,
                    sent, notified, relay, cookie, entered, failure, devRet, tfStayed >>
\* wait_two_factor_mobile after the loop
two_factor_timeout ==
    /\ pc = "wait_mobile"
    /\ i = TWO_FACTOR_WAIT
    /\ tfRet' = "timeout"
    /\ LoginFails(log(logs, <<"two_factor_timeout">>),
                  tg_send(sent, <<"two_factor_timeout">>, tg_ok, proxy_enabled))
    /\ i' = 0
    /\ reloads' = 0 /\ reminders' = 0
    /\ UNCHANGED << config, posts, region_ret, nPrompt, proxy, browser, loc, fast, region, keep, relay,
                    cookie, entered, devRet, tfStayed >>

after_two_factor_falls_through ==
    /\ pc = "after_two_factor"
    /\ pc' = IF "handle_2fa_code_input" \notin entered THEN "code_begin" ELSE "flash"
    /\ submits' = 0
    /\ UNCHANGED << i, exitCode, config, posts, region_ret, nPrompt, pushwait, proxy, browser, loc, fast, region, keep, logs,
                    sent, notified, updates, nOld, offset, code, cookie, entered,
                    failure, ghosts >>
after_two_factor_reprompts ==
    /\ pc = "after_two_factor"
    /\ pc' = IF "handle_2fa_code_input" \in entered THEN "code_begin" ELSE "flash"
    /\ submits' = 0
    /\ UNCHANGED << i, exitCode, config, posts, region_ret, nPrompt, pushwait, proxy, browser, loc, fast, region, keep, logs,
                    sent, notified, updates, nOld, offset, code, cookie, entered,
                    failure, ghosts >>
\* login_github after either two-factor handler returned True: settle, errors
\* of the wait are swallowed
after_two_factor ==
    /\ pc = "after_two_factor"
    /\ pc' = "flash"
    /\ submits' = 0
    /\ UNCHANGED << i, exitCode, config, posts, region_ret, nPrompt, pushwait, proxy, browser, loc, fast, region, keep, logs,
                    sent, notified, updates, nOld, offset, code, cookie, entered,
                    failure, ghosts >>

\* login_github: the .flash-error banner
check_flash_error ==
    /\ pc = "flash"
    /\ \/ /\ LoginFails(log(logs, <<"flash_error">>), sent)
          /\ UNCHANGED << i, loc >>
       \/ /\ logs' = log(logs, <<"step4">>)
          /\ pc' = "wait_redirect"
          /\ i' = 0
          /\ loc' = BLANK
          /\ UNCHANGED << sent, notified, exitCode, failure >>
    /\ UNCHANGED << config, posts, region_ret, nPrompt, pushwait, proxy, browser, fast, region, keep, relay, cookie,
                    entered, ghosts >>

\* ------------------------------------------------------------ relay: inbound
CHAT_ID == "me"
WHITESPACE == {" "}

\* the number of digits of a token made of digits only, 0 for any other token
DigitLen(tok) ==
    CASE tok = "1234" -> 4
      [] tok = "123456" -> 6
      [] tok = "654321" -> 6
      [] tok = "12345678" -> 8
      [] tok = "123456789" -> 9
      [] OTHER -> 0

\* the messages people send to the bot
MSGS ==
    { [chat |-> "me", text |-> <<"/code", " ", "123456">>],
      [chat |-> "me", text |-> <<"hello">>],
      [chat |-> "other", text |-> <<"/code", " ", "654321">>] }

\* str.strip()
RECURSIVE lstrip(_)
lstrip(t) == IF t # <<>> /\ Head(t) \in WHITESPACE THEN lstrip(Tail(t)) ELSE t
RECURSIVE rstrip(_)
rstrip(t) ==
    IF t # <<>> /\ t[Len(t)] \in WHITESPACE THEN rstrip(SubSeq(t, 1, Len(t) - 1)) ELSE t
strip(t) == rstrip(lstrip(t))

code_match_any_length(text) ==
    IF /\ Len(text) >= 3
       /\ text[1] = "/code"
       /\ \A k \in 2..(Len(text) - 1) : text[k] \in WHITESPACE
       /\ DigitLen(text[Len(text)]) >= 1
    THEN <<text[Len(text)]>>
    ELSE None
\* re.compile(r"^/code\s+(\d{6,8})$").match(text): the group, None without a match
code_match(text) ==
    IF /\ Len(text) >= 3
       /\ text[1] = "/code"
       /\ \A k \in 2..(Len(text) - 1) : text[k] \in WHITESPACE
       /\ DigitLen(text[Len(text)]) >= CODE_MIN_DIGITS
       /\ DigitLen(text[Len(text)]) <= CODE_MAX_DIGITS
    THEN <<text[Len(text)]>>
    ELSE None

\* the update stream holding the messages ms, numbered from 1
Stream(ms) ==
    [k \in 1..Len(ms) |-> [update_id |-> k, chat |-> ms[k].chat, text |-> ms[k].text]]

\* getUpdates at api.telegram.org: the pending updates from offset on; without an
\* offset, or with offset 0, all of them
getUpdates(stream, off) == SelectSeq(stream, LAMBDA u : u.update_id >= off)

\* Telegram.flush_updates: resp is how the getUpdates request ended
flush_updates(resp, stream) ==
    IF resp = "ok" /\ getUpdates(stream, 0) # <<>>
    THEN getUpdates(stream, 0)[Len(getUpdates(stream, 0))].update_id + 1
    ELSE 0

\* Telegram.wait_code: the for loop over one getUpdates result; the code is
\* <<update_id, token>> of the first match
RECURSIVE scan_updates(_, _)
scan_updates(result, off) ==
    IF result = <<>> THEN [code |-> None, offset |-> off]
    ELSE LET upd == Head(result)
             m == code_match(strip(upd.text))
         IN  IF upd.chat = CHAT_ID /\ m # None
             THEN [code |-> <<upd.update_id>> \o m, offset |-> upd.update_id + 1]
             ELSE scan_updates(Tail(result), upd.update_id + 1)

\* a message reaches the bot while the run is waiting for the code
responder_sends ==
    /\ pc \in {"flush", "wait_code"}
    /\ Len(updates) < MaxUpdates
    /\ \E m \in MSGS :
         updates' = Append(updates, [update_id |-> Len(updates) + 1,
                                     chat |-> m.chat, text |-> m.text])
    /\ UNCHANGED << pc, i, exitCode, config, posts, region_ret, nPrompt, pushwait, proxy, browser, loc, fast, region, keep,
                    logs, sent, notified, nOld, offset, code, submits, cookie,
                    entered, failure, ghosts >>

\* handle_2fa_code_input up to the call of wait_code; wait_code returns None at
\* once when the relay is not configured
handle_2fa_code_input ==
    /\ pc = "code_begin"
    /\ entered' = entered \cup {"handle_2fa_code_input", "wait_code"}
    /\ \E switched \in BOOLEAN, old \in UNION { [1..n -> MSGS] : n \in 0..MaxUpdates } :
         LET l1 == log(logs, <<"code_needed">>)
             l2 == IF switched THEN log(l1, <<"switched_to_code">>) ELSE l1
             l3 == log(l2, <<"waiting_for_code">>)
             s1 == tg_send(sent, <<"code_prompt">>, tg_ok, proxy_enabled)
         IN  /\ IF ~tg_ok
                THEN /\ old = <<>>
                     /\ LoginFails(log(l3, <<"code_timeout">>),
                                   tg_send(s1, <<"code_timeout">>, tg_ok, proxy_enabled))
                     /\ UNCHANGED updates
                ELSE /\ updates' = Stream(old)
                     /\ logs' = l3
                     /\ sent' = s1
                     /\ pc' = "flush"
                     /\ UNCHANGED << notified, exitCode, failure >>
    /\ UNCHANGED << i, config, posts, region_ret, nPrompt, pushwait, proxy, browser, loc, fast, region, keep, nOld, offset,
                    code, submits, cookie, ghosts >>

\* wait_code: offset = self.flush_updates()
wait_code_flush ==
    /\ pc = "flush"
    /\ \E resp \in {"ok", "not_ok", "raised"} :
         offset' = flush_updates(resp, updates)
    /\ nOld' = Len(updates)
    /\ i' = 0
    /\ pc' = "wait_code"
    /\ UNCHANGED << exitCode, config, posts, region_ret, nPrompt, pushwait, proxy, browser, loc, fast, region, keep, logs,
                    sent, notified, updates, code, submits, cookie, entered,
                    failure, ghosts >>

\* wait_code: one pass of the while loop, i the seconds since the deadline was
\* set; the request takes no time or the long-poll time, then comes the sleep
wait_code ==
    /\ pc = "wait_code"
    /\ i < TWO_FACTOR_WAIT
    /\ \E resp \in {"ok", "not_ok", "raised"}, d \in {0, LONG_POLL} :
         LET r == scan_updates(getUpdates(updates, offset), offset)
         IN  IF resp = "ok" /\ r.code # None
             THEN /\ d = 0
                  /\ code' = r.code
                  /\ offset' = r.offset
                  /\ logs' = log(logs, <<"code_received">>)
                  /\ sent' = tg_send(sent, <<"code_received">>, tg_ok, proxy_enabled)
                  /\ i' = 1
                  /\ pc' = "otp"
             ELSE /\ offset' = IF resp = "ok" THEN r.offset ELSE offset
                  /\ i' = i + d + POLL_SLEEP
                  /\ UNCHANGED << code, logs, sent, pc >>
    /\ UNCHANGED << exitCode, config, posts, region_ret, nPrompt, pushwait, proxy, browser, loc, fast, region, keep,
                    notified, updates, nOld, submits, cookie, entered, failure, ghosts >>

\* handle_2fa_code_input: wait_code ran out of time and returned None
wait_code_timeout ==
    /\ pc = "wait_code"
    /\ i >= TWO_FACTOR_WAIT
    /\ LoginFails(log(logs, <<"code_timeout">>),
                  tg_send(sent, <<"code_timeout">>, tg_ok, proxy_enabled))
    /\ i' = 0
    /\ updates' = <<>> /\ nOld' = 0 /\ offset' = 0
    /\ UNCHANGED << config, posts, region_ret, nPrompt, pushwait, proxy, browser, loc, fast, region, keep, code, submits,
                    cookie, entered, ghosts >>

\* handle_2fa_code_input: one pass of for sel in selectors, i the selector's
\* rank; once the handler returns, the stream and wait_code's locals are gone
otp_selector ==
    /\ pc = "otp"
    /\ i <= NUM_OTP_SELECTORS
    /\ \/ \* the field is not visible, or looking for it raised
          /\ i' = i + 1
          /\ UNCHANGED << loc, logs, sent, submits, pc, notified, exitCode, failure,
                          updates, nOld, offset, code >>
       \/ \* filled and submitted, then the wait for the network raised: swallowed
          /\ submits' = submits + 1
          /\ logs' = logAll(logs, << <<"code_filled">>, <<"code_submitted">> >>)
          /\ i' = i + 1
          /\ UNCHANGED << loc, sent, pc, notified, exitCode, failure,
                          updates, nOld, offset, code >>
       \/ \* filled and submitted, the location after it decides
          \E u \in URLS :
            LET l == logAll(logs, << <<"code_filled">>, <<"code_submitted">> >>)
            IN  /\ submits' = submits + 1
                /\ loc' = u
                /\ IF ~in_two_factor_flow(u)
                   THEN /\ logs' = log(l, <<"code_ok">>)
                        /\ sent' = tg_send(sent, <<"code_ok">>, tg_ok, proxy_enabled)
                        /\ pc' = "after_two_factor"
                        /\ UNCHANGED << notified, exitCode, failure >>
                   ELSE LoginFails(log(l, <<"code_wrong">>),
                                   tg_send(sent, <<"code_wrong">>, tg_ok, proxy_enabled))
                /\ i' = 0
                /\ updates' = <<>> /\ nOld' = 0 /\ offset' = 0 /\ code' = None
    /\ UNCHANGED << config, posts, region_ret, nPrompt, pushwait, proxy, browser, fast, region, keep, cookie, entered, ghosts >>

\* handle_2fa_code_input: no selector led to a return
otp_not_found ==
    /\ pc = "otp"
    /\ i > NUM_OTP_SELECTORS
    /\ LoginFails(log(logs, <<"no_code_field">>),
                  tg_send(sent, <<"no_code_field">>, tg_ok, proxy_enabled))
    /\ i' = 0
    /\ updates' = <<>> /\ nOld' = 0 /\ offset' = 0 /\ code' = None
    /\ UNCHANGED << config, posts, region_ret, nPrompt, pushwait, proxy, browser, loc, fast, region, keep, submits,
                    cookie, entered, ghosts >>

\* ------------------------------------------------------------ redirect
\* wait_redirect: one pass of for i in range(wait); u is the location read at
\* its start; oauth(page) handles a consent page, then comes the sleep
wait_redirect ==
    /\ pc = "wait_redirect"
    /\ i < REDIRECT_WAIT
    /\ \E u \in URLS :
         LET l0 == IF i = 0 THEN log(logs, <<"wait_redirect">>) ELSE logs
             d == detect_region(u, detected_region, region_base_url,
                                log(l0, <<"redirected">>))
             lw == IF i % 10 = 0 THEN << <<"waiting">> >> ELSE <<>>
         IN  /\ \/ /\ redirected(u)
                   /\ loc' = u
                   /\ detected_region' = d.dr
                   /\ region_base_url' = d.rb
                   /\ logs' = log(d.logs, <<"step5">>)
                   /\ entered' = entered \cup {"wait_redirect", "detect_region"}
                   /\ pc' = "verify"
                   /\ i' = 0
                   /\ UNCHANGED << sent, notified, exitCode, failure >>
                \/ /\ ~redirected(u)
                   /\ at_authorize(u)
                   /\ entered' = entered \cup {"wait_redirect", "oauth"}
                   /\ \/ /\ Raise(log(l0, <<"oauth">>), sent)
                         /\ loc' = u
                         /\ i' = 0
                      \/ /\ logs' = logAll(l0, << <<"oauth">> >> \o lw)
                         /\ i' = i + 1
                         /\ UNCHANGED << pc, loc, sent, notified, exitCode, failure >>
                   /\ UNCHANGED region
                \/ /\ ~redirected(u)
                   /\ ~at_authorize(u)
                   /\ entered' = entered \cup {"wait_redirect"}
                   /\ logs' = logAll(l0, lw)
                   /\ i' = i + 1
                   /\ UNCHANGED << pc, loc, region, sent, notified, exitCode, failure >>
    /\ UNCHANGED << config, posts, region_ret, nPrompt, pushwait, proxy, browser, fast, keep, relay, cookie, ghosts >>

redirect_timeout_restarts ==
    /\ pc = "wait_redirect"
    /\ i = REDIRECT_WAIT
    /\ i' = 0
    /\ UNCHANGED << pc, exitCode, config, posts, region_ret, nPrompt, pushwait, proxy, browser, loc, fast, region, keep, logs,
                    sent, notified, relay, cookie, entered, failure, ghosts >>
\* run, step 4: wait_redirect returned False
redirect_timeout ==
    /\ pc = "wait_redirect"
    /\ i = REDIRECT_WAIT
    /\ RunFails("redirect_timeout", "redirect_failed",
                log(logs, <<"redirect_timeout">>), sent)
    /\ i' = 0
    /\ UNCHANGED << config, posts, region_ret, nPrompt, pushwait, proxy, browser, loc, fast, region, keep, relay,
                    cookie, entered, ghosts >>

needs_region_confirm_always(dr) == TRUE
\* run, step 5: detect_region is called again only when no region is recorded
needs_region_confirm(dr) == dr = None

\* run, step 5: the location is read again after the screenshot, checked, and
\* the region is looked for once more when none is recorded
verify ==
    /\ pc = "verify"
    /\ \E u \in URLS :
         LET d == detect_region(u, detected_region, region_base_url, logs)
         IN  /\ loc' = u
             /\ IF verify_fails(u)
                THEN /\ RunFails("verify_failed", "verify_failed", logs, sent)
                     /\ UNCHANGED << region, entered >>
                ELSE /\ IF needs_region_confirm(detected_region)
                        THEN /\ detected_region' = d.dr
                             /\ region_base_url' = d.rb
                             /\ logs' = d.logs
                        ELSE UNCHANGED << region, logs >>
                     /\ entered' = entered \cup {"verified"}
                     /\ pc' = "keepalive"
                     /\ UNCHANGED << sent, notified, exitCode, failure >>
    /\ UNCHANGED << i, config, posts, region_ret, nPrompt, pushwait, proxy, browser, fast, keep, relay, cookie, ghosts >>

\* ------------------------------------------------------------ keepalive
\* keepalive: the pages to visit under base
pages_to_visit(base) == << base \o <<"/">>, base \o <<"/", "apps">> >>

\* keepalive: the base URL is fixed before the first visit
keepalive ==
    /\ pc = "keepalive"
    /\ base_url' = get_base_url(region_base_url)
    /\ logs' = logAll(logs, << <<"keepalive">>, <<"base_url">> \o base_url' >>
                            \o (IF detected_region # None
                                THEN << <<"current_region">> \o detected_region >>
                                ELSE <<>>))
    /\ entered' = entered \cup {"keepalive"}
    /\ i' = 1
    /\ loc' = BLANK
    /\ pc' = "visit"
    /\ UNCHANGED << exitCode, config, posts, region_ret, nPrompt, pushwait, proxy, browser, fast, region, navs,
                    sent, notified, relay, cookie, failure, ghosts >>

keepalive_visit_aborts ==
    /\ pc = "visit"
    /\ i <= Len(pages_to_visit(base_url))
    /\ navs' = Append(navs, pages_to_visit(base_url)[i])
    /\ \/ /\ Raise(logs, sent)
          /\ entered' = entered \cup {"visit_failed"}
          /\ UNCHANGED << i, region >>
       \/ /\ \E u \in URLS :
               LET l == log(logs, <<"visited">>)
                   d == detect_region(u, detected_region, region_base_url, l)
               IN  /\ IF Contains(u, CLAW)
                      THEN /\ detected_region' = d.dr
                           /\ region_base_url' = d.rb
                           /\ logs' = d.logs
                           /\ entered' = entered \cup {"redetect"}
                      ELSE /\ logs' = l
                           /\ UNCHANGED << region, entered >>
          /\ i' = i + 1
          /\ UNCHANGED << pc, exitCode, sent, notified, failure >>
    /\ UNCHANGED << config, posts, region_ret, nPrompt, pushwait, proxy, browser, loc, fast, base_url, relay, cookie,
                    ghosts >>
\* keepalive: one pass of for url, name in pages_to_visit
keepalive_visit ==
    /\ pc = "visit"
    /\ i <= Len(pages_to_visit(base_url))
    /\ navs' = Append(navs, pages_to_visit(base_url)[i])
    /\ \/ \* goto or the wait for the network raised: a warning, next page
          /\ logs' = log(logs, <<"visit_failed">>)
          /\ entered' = entered \cup {"visit_failed"}
          /\ UNCHANGED region
       \/ \E u \in URLS :
            LET l == log(logs, <<"visited">>)
                d == detect_region(u, detected_region, region_base_url, l)
            IN  /\ IF Contains(u, CLAW)
                   THEN /\ detected_region' = d.dr
                        /\ region_base_url' = d.rb
                        /\ logs' = d.logs
                        /\ entered' = entered \cup {"redetect"}
                   ELSE /\ logs' = l
                        /\ UNCHANGED << region, entered >>
    /\ i' = i + 1
    /\ UNCHANGED << pc, exitCode, config, posts, region_ret, nPrompt, pushwait, proxy, browser, loc, fast, base_url, sent,
                    notified, relay, cookie, failure, ghosts >>

\* ------------------------------------------------------------ credential
COOKIES == {S_OLD, S_NEW}
UPDATE_OUTCOMES ==
    {"not_configured", "key_fetch_failed", "raised", "put_rejected", "stored"}

\* SecretUpdater.update: True only when the PUT was accepted
secret_update(outcome) == outcome = "stored"

\* value[:15] and value[-8:] of a cookie value, which is its first 15
\* characters, its middle and its last 8 characters
excerpt(value) == <<value[1], "...", value[Len(value)]>>

save_cookie_reports_both(value, ok, l, s, tgok, enabled) ==
    IF value = None THEN [logs |-> l, sent |-> s]
    ELSE LET l1 == log(l, <<"new_cookie">> \o excerpt(value))
             s1 == tg_send(s, <<"cookie_updated">>, tgok, enabled)
         IN  IF ok
             THEN [logs |-> log(l1, <<"secret_updated">>), sent |-> s1]
             ELSE [logs |-> log(l1, <<"cookie_relayed">>),
                   sent |-> tg_send(s1, <<"cookie_cleartext">> \o value, tgok, enabled)]
\* AutoLogin.save_cookie(value) when SecretUpdater.update returned ok
save_cookie(value, ok, l, s, tgok, enabled) ==
    IF value = None THEN [logs |-> l, sent |-> s]
    ELSE LET l1 == log(l, <<"new_cookie">> \o excerpt(value))
         IN  IF ok
             THEN [logs |-> log(l1, <<"secret_updated">>),
                   sent |-> tg_send(s, <<"cookie_updated">>, tgok, enabled)]
             ELSE [logs |-> log(l1, <<"cookie_relayed">>),
                   sent |-> tg_send(s, <<"cookie_cleartext">> \o value, tgok, enabled)]

hands_to_save_cookie_if_changed(value, supplied) == value # None /\ value # supplied
\* run: the value get_session returned is handed to save_cookie
hands_to_save_cookie(value, supplied) == value # None

\* run, after keepalive: new = self.get_session(context)
get_session ==
    /\ pc = "visit"
    /\ i > Len(pages_to_visit(base_url))
    /\ new' \in COOKIES \cup {None}
    /\ entered' = entered \cup {"get_session"}
    /\ LET l == IF fast THEN logs ELSE log(logs, <<"step6">>)
       IN  IF hands_to_save_cookie(new', gh_session)
           THEN /\ pc' = "save_cookie"
                /\ logs' = l
           ELSE /\ pc' = "notify"
                /\ logs' = IF fast THEN l ELSE log(l, <<"no_new_cookie">>)
    /\ UNCHANGED << i, exitCode, config, posts, region_ret, nPrompt, pushwait, proxy, browser, loc, fast, region, keep,
                    sent, notified, relay, stored, failure, ghosts >>

store_cookie_twice ==
    /\ pc = "save_cookie"
    /\ \E o \in UPDATE_OUTCOMES :
         LET r == save_cookie(new, secret_update(o), logs, sent, tg_ok, proxy_enabled)
         IN  /\ stored' = IF secret_update(o) THEN "stored" ELSE "failed"
             /\ logs' = r.logs
             /\ sent' = r.sent
    /\ entered' = entered \cup {"save_cookie"}
    /\ pc' = IF stored = "" THEN "save_cookie" ELSE "notify"
    /\ UNCHANGED << i, exitCode, config, posts, region_ret, nPrompt, pushwait, proxy, browser, loc, fast, region, keep,
                    notified, relay, new, failure, ghosts >>
\* run: self.save_cookie(new)
store_cookie ==
    /\ pc = "save_cookie"
    /\ \E o \in UPDATE_OUTCOMES :
         LET r == save_cookie(new, secret_update(o), logs, sent, tg_ok, proxy_enabled)
         IN  /\ stored' = IF secret_update(o) THEN "stored" ELSE "failed"
             /\ logs' = r.logs
             /\ sent' = r.sent
    /\ entered' = entered \cup {"save_cookie"}
    /\ pc' = "notify"
    /\ UNCHANGED << i, exitCode, config, posts, region_ret, nPrompt, pushwait, proxy, browser, loc, fast, region, keep,
                    notified, relay, new, failure, ghosts >>

\* run: self.notify(True)
notify_success ==
    /\ pc = "notify"
    /\ notified' = Append(notified, TRUE)
    /\ sent' = notify(sent, TRUE, "", tg_ok, detected_region, proxy_enabled, logs)
    /\ pc' = "close_browser"
    /\ UNCHANGED << i, exitCode, config, posts, region_ret, nPrompt, pushwait, proxy, browser, loc, fast, region, keep,
                    logs, relay, cookie, entered, failure, ghosts >>

\* ------------------------------------------------------------ cleanup
\* run, inner finally: browser.close()
close_browser ==
    /\ pc = "close_browser"
    /\ browser' = "closed"
    /\ pc' = "stop_proxy"
    /\ UNCHANGED << i, exitCode, config, posts, region_ret, nPrompt, pushwait, proxy, loc, fast, region, keep, logs, sent,
                    notified, relay, cookie, entered, failure, ghosts >>

\* run, outer finally: self.proxy.stop(), then the process ends
stop_proxy ==
    /\ pc = "stop_proxy"
    /\ proxy_process' = hy2_stop(proxy_process)
    /\ entered' = entered \cup {"proxy_stop"}
    /\ pc' = "exited"
    /\ UNCHANGED << i, exitCode, config, posts, region_ret, nPrompt, pushwait, proxy_enabled, context_proxy, browser, loc, fast,
                    region, keep, logs, sent, notified, relay, cookie, failure, ghosts >>

\* ------------------------------------------------------------ specification
Next ==
    \/ check_credentials
    \/ start_proxy
    \/ launch_browser
    \/ playwright_exit
    \/ open_signin
    \/ click_github
    \/ login_github
    \/ device_begin
    \/ wait_device
    \/ wait_device_end
    \/ after_device
    \/ check_two_factor
    \/ mobile_begin
    \/ wait_two_factor_mobile
    \/ two_factor_timeout
    \/ after_two_factor
    \/ handle_2fa_code_input
    \/ responder_sends
    \/ wait_code_flush
    \/ wait_code
    \/ wait_code_timeout
    \/ otp_selector
    \/ otp_not_found
    \/ check_flash_error
    \/ wait_redirect
    \/ redirect_timeout
    \/ verify
    \/ keepalive
    \/ keepalive_visit
    \/ get_session
    \/ store_cookie
    \/ notify_success
    \/ close_browser
    \/ stop_proxy

Spec == Init /\ [][Next]_vars

\* ------------------------------------------------------------ wait_code alone
\* the texts and senders wait_code has to tell apart
CODE_MSGS ==
    { [chat |-> "me", text |-> <<"/code", " ", "123456">>],
      [chat |-> "me", text |-> <<"/code", " ", "12345678">>],
      [chat |-> "me", text |-> <<" ", "/code", " ", " ", "123456", " ">>],
      [chat |-> "me", text |-> <<"/code", " ", "1234">>],
      [chat |-> "me", text |-> <<"/code", " ", "123456789">>],
      [chat |-> "me", text |-> <<"/code", "123456">>],
      [chat |-> "me", text |-> <<"code", " ", "123456">>],
      [chat |-> "other", text |-> <<"/code", " ", "654321">>] }

\* handle_2fa_code_input has sent its prompt and calls wait_code, the relay
\* configured; any of CODE_MSGS may be pending
InitCode ==
    /\ pc = "flush"
    /\ i = 0
    /\ exitCode = 0
    /\ creds = TRUE
    /\ gh_session = None
    /\ tg_ok = TRUE
    /\ proxy_enabled = FALSE
    /\ proxy_process = "none"
    /\ context_proxy = FALSE
    /\ browser = "open"
    /\ loc = U_GH_2FA_APP
    /\ fast = FALSE
    /\ detected_region = None
    /\ region_base_url = None
    /\ base_url = None
    /\ navs = <<>>
    /\ logs = [k \in 1..LOG_TAIL |-> <<"line">>]
    /\ sent = tg_send(<<>>, <<"code_prompt">>, TRUE, FALSE)
    /\ posts = <<>>
    /\ region_ret = None
    /\ notified = <<>>
    /\ updates \in { Stream(ms) : ms \in UNION { [1..n -> CODE_MSGS] : n \in 0..MaxUpdates } }
    /\ nPrompt = Len(updates)
    /\ reloads = 0
    /\ reminders = 0
    /\ nOld = 0
    /\ offset = 0
    /\ code = None
    /\ submits = 0
    /\ new = None
    /\ stored = ""
    /\ entered = {"click", "login_github", "handle_2fa_code_input", "wait_code"}
    /\ failure = ""
    /\ devRet = ""
    /\ tfRet = ""
    /\ tfStayed = FALSE

\* a message reaches the bot while wait_code runs
responder_sends_code ==
    /\ pc \in {"flush", "wait_code"}
    /\ Len(updates) < MaxUpdates
    /\ \E m \in CODE_MSGS :
         updates' = Append(updates, [update_id |-> Len(updates) + 1,
                                     chat |-> m.chat, text |-> m.text])
    /\ UNCHANGED << pc, i, exitCode, config, posts, region_ret, nPrompt, pushwait, proxy, browser, loc, fast, region, keep,
                    logs, sent, notified, nOld, offset, code, submits, cookie,
                    entered, failure, ghosts >>

NextCode ==
    \/ responder_sends_code
    \/ wait_code_flush
    \/ wait_code
    \/ wait_code_timeout

SpecCode == InitCode /\ [][NextCode]_vars

\* ------------------------------------------------------------ Telegram alone
\* Telegram.photo: nothing leaves when the relay is not configured or the
\* file is not there
tg_photo(s, caption, ok, exists, enabled) ==
    Append(s, [text |-> <<"photo">> \o caption,
               route |-> IF ok /\ exists THEN get_proxies(enabled) ELSE "not_sent"])

\* the API method of the call under way
tg_method == IF Head(sent[Len(sent)].text) = "photo" THEN "sendPhoto" ELSE "sendMessage"

\* the run is between two Telegram calls, the relay configured or not, the
\* tunnel enabled or not
InitSend ==
    /\ pc = "tg_idle"
    /\ i = 0
    /\ exitCode = 0
    /\ creds = TRUE
    /\ gh_session = None
    /\ tg_ok \in BOOLEAN
    /\ proxy_enabled \in BOOLEAN
    /\ proxy_process = IF proxy_enabled THEN "running" ELSE "none"
    /\ context_proxy = proxy_enabled
    /\ browser = "open"
    /\ loc = BLANK
    /\ fast = FALSE
    /\ detected_region = None
    /\ region_base_url = None
    /\ base_url = None
    /\ navs = <<>>
    /\ logs = <<>>
    /\ sent = <<>>
    /\ posts = <<>>
    /\ region_ret = None
    /\ nPrompt = 0
    /\ reloads = 0
    /\ reminders = 0
    /\ notified = <<>>
    /\ updates = <<>>
    /\ nOld = 0
    /\ offset = 0
    /\ code = None
    /\ submits = 0
    /\ new = None
    /\ stored = ""
    /\ entered = {}
    /\ failure = ""
    /\ devRet = ""
    /\ tfRet = ""
    /\ tfStayed = FALSE

\* Telegram.send up to its first try: returns at once when not configured
send_call ==
    /\ pc = "tg_idle"
    /\ Len(sent) < MaxCalls
    /\ sent' = tg_send(sent, <<"text">>, tg_ok, proxy_enabled)
    /\ pc' = IF ~tg_ok THEN "tg_idle" ELSE "tg_first"
    /\ UNCHANGED << i, exitCode, config, posts, region_ret, nPrompt, pushwait, proxy, browser, loc, fast, region, keep,
                    logs, notified, relay, cookie, entered, failure, ghosts >>

\* Telegram.photo up to its first try: returns at once when not configured
\* or when os.path.exists(path) is false
photo_call ==
    /\ pc = "tg_idle"
    /\ Len(sent) < MaxCalls
    /\ \E exists \in BOOLEAN :
         /\ sent' = tg_photo(sent, <<"caption">>, tg_ok, exists, proxy_enabled)
         /\ pc' = IF ~tg_ok \/ ~exists THEN "tg_idle" ELSE "tg_first"
    /\ UNCHANGED << i, exitCode, config, posts, region_ret, nPrompt, pushwait, proxy, browser, loc, fast, region, keep,
                    logs, notified, relay, cookie, entered, failure, ghosts >>

\* the outcomes of one try block: open(path) of photo can raise before the
\* request is made
TRY_OUTCOMES == {"returned", "post_raised", "open_raised"}

post_second_again(out) ==
    /\ pc = "tg_second"
    /\ posts' = Append(posts, [call |-> Len(sent), method |-> tg_method,
                               route |-> "direct"])
    /\ pc' = IF out = "returned" THEN "tg_idle" ELSE "tg_second"
\* the first try: requests.post with proxies=self._get_proxies(); whatever it
\* raises is caught by the bare except, which holds the second try
post_first ==
    /\ pc = "tg_first"
    /\ \E out \in TRY_OUTCOMES :
         /\ out = "open_raised" => tg_method = "sendPhoto"
         /\ posts' = IF out = "open_raised" THEN posts
                     ELSE Append(posts, [call |-> Len(sent), method |-> tg_method,
                                         route |-> get_proxies(proxy_enabled)])
         /\ pc' = IF out = "returned" THEN "tg_idle" ELSE "tg_second"
    /\ UNCHANGED << i, exitCode, config, region_ret, nPrompt, pushwait, proxy, browser, loc, fast, region, keep,
                    logs, sent, notified, relay, cookie, entered, failure, ghosts >>

\* the second try, inside the except: requests.post without proxies; its
\* bare except passes
post_second(out) ==
    /\ pc = "tg_second"
    /\ posts' = IF out = "open_raised" THEN posts
                ELSE Append(posts, [call |-> Len(sent), method |-> tg_method,
                                    route |-> "direct"])
    /\ pc' = "tg_idle"

\* the direct attempt of the call under way
direct_retry ==
    /\ pc = "tg_second"
    /\ \E out \in TRY_OUTCOMES :
         /\ out = "open_raised" => tg_method = "sendPhoto"
         /\ post_second(out)
    /\ UNCHANGED << i, exitCode, config, region_ret, nPrompt, pushwait, proxy, browser, loc, fast, region, keep,
                    logs, sent, notified, relay, cookie, entered, failure, ghosts >>

NextSend ==
    \/ send_call
    \/ photo_call
    \/ post_first
    \/ direct_retry

SpecSend == InitSend /\ [][NextSend]_vars

\* ------------------------------------------------------------ detect_region alone
U_PLACEHOLDER ==
    HTTPS \o <<"console">> \o CONSOLE_SUFFIX \o <<"/", "r", "/", "eu-central-1", "/", "x">>
U_R_PATH == LOGIN_ENTRY_URL \o <<"/", "r", "/", "eu-central-1">>
U_HTTP == <<"http", "://", "console", ".", "run", ".">> \o CLAW \o <<"/", "apps">>
U_GH_REGION == GITHUB \o <<"/", "region", "/", "ap-southeast-1">>

\* the URLs detect_region is given
DETECT_URLS == URLS \cup {U_PLACEHOLDER, U_R_PATH, U_HTTP, U_GH_REGION}

\* a fresh AutoLogin: no region recorded
InitRegion ==
    /\ pc = "detect_region"
    /\ i = 0
    /\ exitCode = 0
    /\ creds = TRUE
    /\ gh_session = None
    /\ tg_ok \in BOOLEAN
    /\ proxy_enabled = FALSE
    /\ proxy_process = "none"
    /\ context_proxy = FALSE
    /\ browser = "open"
    /\ loc = BLANK
    /\ fast = FALSE
    /\ detected_region = None
    /\ region_base_url = None
    /\ base_url = None
    /\ navs = <<>>
    /\ logs = <<>>
    /\ sent = <<>>
    /\ posts = <<>>
    /\ region_ret = None
    /\ nPrompt = 0
    /\ reloads = 0
    /\ reminders = 0
    /\ notified = <<>>
    /\ updates = <<>>
    /\ nOld = 0
    /\ offset = 0
    /\ code = None
    /\ submits = 0
    /\ new = None
    /\ stored = ""
    /\ entered = {}
    /\ failure = ""
    /\ devRet = ""
    /\ tfRet = ""
    /\ tfStayed = FALSE

\* one call detect_region(u)
detect_call ==
    /\ pc = "detect_region"
    /\ i < MaxDetects
    /\ \E u \in DETECT_URLS :
         LET d == detect_region(u, detected_region, region_base_url, logs)
         IN  /\ loc' = u
             /\ region_ret' = d.ret
             /\ detected_region' = d.dr
             /\ region_base_url' = d.rb
             /\ logs' = d.logs
    /\ i' = i + 1
    /\ UNCHANGED << pc, exitCode, config, posts, nPrompt, pushwait, proxy, browser, fast, keep, sent,
                    notified, relay, cookie, entered, failure, ghosts >>

NextRegion == detect_call

SpecRegion == InitRegion /\ [][NextRegion]_vars

\* ------------------------------------------------------------ properties
\* C1: the plain sign-in location, a URL containing 'github.com/login', is
\* never what wait_two_factor_mobile took for the approval.  The code tests
\* "outside the two-factor flow" first, so https://github.com/login counts as
\* approved and this fails.
C1_SignInNeverApproved ==
    tfRet = "approved" => ~Contains(loc, <<"github", ".", "com", "/", "login">>)

\* C2: when wait_device reports approval after the budget ran out, the
\* location it read then matches neither 'verified-device' nor
\* 'device-verification'.  The last test looks for 'verified-device' only, so
\* this fails.
C2_BudgetApprovalOffPattern ==
    devRet = "budget" =>
        /\ ~Contains(loc, <<"verified-device">>)
        /\ ~Contains(loc, <<"device-verification">>)

\* C3: the code wait_code returns comes from an update that reached the stream
\* after flush_updates ran.  A flush that fails or is refused leaves offset 0,
\* and getUpdates then hands out the old updates, so this fails.
C3_CodeIsNewerThanFlush ==
    code # None => code[1] > nOld

\* C4, as claimed: a value is handed to save_cookie only when it differs from
\* the GH_SESSION supplied at start.  The run never compares the two, so this
\* fails.
C4_HandedOnlyWhenChanged ==
    pc = "save_cookie" => new # gh_session

\* C4, amended: once get_session has returned, the value is handed to
\* save_cookie exactly when it is present, equal to the supplied GH_SESSION
\* or not.
C4_HandedWheneverPresent ==
    /\ pc = "save_cookie" => new # None
    /\ pc \in {"notify", "close_browser", "stop_proxy", "exited"} /\ "get_session" \in entered
         => (("save_cookie" \in entered) <=> (new # None))

\* C4: a run that extracted the very value it was started with has handed it
\* to save_cookie
C4_SameValueHanded ==
    pc = "notify" /\ "save_cookie" \in entered /\ new = gh_session

\* C5: a first location on the platform and outside sign-in never leads to the
\* provider click; the run that took this branch enters none of click,
\* login_github, wait_device, the two-factor handlers and wait_redirect, does
\* not fail, and ends, after region detection, keepalive and get_session,
\* with the success notification as its only notification.
C5_AlreadyLoggedInSkipsLogin ==
    LET onPlatform == Contains(loc, CLAW) /\ ~Contains(Lower(loc), <<"signin">>)
    IN  /\ pc = "click_github" => ~onPlatform
        /\ pc = "keepalive" /\ fast => onPlatform
        /\ fast =>
              /\ entered \cap {"click", "oauth", "login_github", "wait_device",
                                "wait_two_factor_mobile", "handle_2fa_code_input",
                                "wait_code", "wait_redirect"} = {}
              /\ pc \in {"keepalive", "visit", "save_cookie", "notify",
                          "close_browser", "stop_proxy", "exited"}
              /\ "detect_region" \in entered
              /\ failure = "" /\ exitCode = 0
        /\ fast /\ pc \in {"close_browser", "stop_proxy", "exited"} =>
              /\ {"keepalive", "get_session"} \subseteq entered
              /\ notified = <<TRUE>>

\* C5: a run that took the already-logged-in branch has exited
C5_FastRunExited ==
    fast /\ pc = "exited" /\ notified = <<TRUE>> /\ "get_session" \in entered

\* C6: when every poll of wait_two_factor_mobile saw the GitHub Mobile page and
\* the budget of TWO_FACTOR_WAIT passes is used up, the wait times out; the
\* run then has exit code 1, has sent the timeout message, has notified once,
\* with failure, and never enters wait_redirect, keepalive or get_session.
C6_PushTimeoutFailsOnce ==
    /\ [][pc = "wait_mobile" /\ i = TWO_FACTOR_WAIT /\ tfStayed
            => tfRet' = "timeout" /\ pc' = "close_browser"]_vars
    /\ [](tfStayed /\ tfRet = "timeout" =>
            /\ exitCode = 1
            /\ failure = "login_failed"
            /\ notified = <<FALSE>>
            /\ \E k \in DOMAIN sent : sent[k].text = <<"two_factor_timeout">>
            /\ entered \cap {"wait_redirect", "keepalive", "get_session"} = {}
            /\ pc \in {"close_browser", "stop_proxy", "exited"})

\* C6: a run whose push wait saw only the GitHub Mobile page has timed out and
\* exited
C6_PushTimedOut ==
    tfStayed /\ tfRet = "timeout" /\ pc = "exited"

C8_FailedUpdateDisclosesOnce ==
    LET clear == { k \in DOMAIN sent : Head(sent[k].text) = "cookie_cleartext" }
        updated == { k \in DOMAIN sent : sent[k].text = <<"cookie_updated">> }
        logged == { k \in DOMAIN logs : logs[k] = <<"secret_updated">> }
    IN  /\ stored = "failed" =>
              /\ Cardinality(clear) = 1
              /\ \A k \in clear : sent[k].text = <<"cookie_cleartext">> \o new
              /\ updated = {}
              /\ logged = {}
        /\ stored = "stored" => clear = {} /\ Cardinality(updated) = 1
        /\ stored = "" => clear = {} /\ updated = {}

\* C8: a run whose secret update failed has exited, the relay configured
C8_UpdateFailedExited ==
    stored = "failed" /\ pc = "exited" /\ tg_ok

\* C9, as claimed: once a region identifier is recorded, no step changes the
\* identifier or the base endpoint.  keepalive calls detect_region after each
\* visit, and that call overwrites, so this fails.
C9_RegionNeverChanges ==
    [][detected_region # None => UNCHANGED << detected_region, region_base_url >>]_vars

\* C9, amended: a recorded identifier or base endpoint is never cleared, and
\* once an identifier is recorded only the re-detection of keepalive, after a
\* visit, changes the identifier or the base endpoint.
C9_RegionChangesOnlyInKeepalive ==
    [][/\ detected_region # None => detected_region' # None
       /\ region_base_url # None => region_base_url' # None
       /\ detected_region # None /\ region' # region => pc = "visit"]_vars

\* C9: keepalive re-detected, and the base endpoint is no longer the one of the
\* recorded identifier
C9_BaseEndpointReplaced ==
    /\ "redetect" \in entered
    /\ detected_region # None
    /\ region_base_url # HTTPS \o detected_region \o CONSOLE_SUFFIX

\* C10: when wait_redirect has returned True, the host of the location it read
\* is on the platform.  The test looks for 'claw.cloud' anywhere in the URL,
\* so the consent page at github.com whose query names the platform passes
\* and this fails.
C10_RedirectedHostOnPlatform ==
    pc = "verify" => Contains(urlparse(loc).netloc, CLAW)

\* C11: the token wait_code returns is the digits of an update whose chat is
\* the configured one and whose trimmed text is '/code', whitespace, 6 to 8
\* digits, so never of '/code 1234', 'code 123456' or another chat's message;
\* and a poll that moves the offset on without returning has passed over
\* neither '/code 123456' nor '/code 12345678' from the configured chat.
C11_CodeOnlyFromResponderCommand ==
    /\ [](code # None =>
            LET upd == updates[code[1]]
                t == SubSeq(upd.text,
                            CHOOSE a \in 1..Len(upd.text) : upd.text[a] # " " /\
                                \A b \in 1..(a - 1) : upd.text[b] = " ",
                            CHOOSE z \in 1..Len(upd.text) : upd.text[z] # " " /\
                                \A b \in (z + 1)..Len(upd.text) : upd.text[b] = " ")
            IN  /\ upd.chat = "me"
                /\ Len(t) >= 3
                /\ t[1] = "/code"
                /\ \A k \in 2..(Len(t) - 1) : t[k] = " "
                /\ t[Len(t)] \in {"123456", "654321", "12345678"}
                /\ code[2] = t[Len(t)]
                /\ upd.text \notin { <<"/code", " ", "1234">>, <<"code", " ", "123456">> })
    /\ [][pc = "wait_code" /\ pc' = "wait_code" =>
            \A k \in DOMAIN updates :
                offset <= k /\ k < offset' =>
                    ~ /\ updates[k].chat = "me"
                      /\ updates[k].text \in { <<"/code", " ", "123456">>,
                                                <<"/code", " ", "12345678">> }]_vars

\* C11: wait_code has returned the 8 digits of '/code 12345678'
C11_EightDigitsReturned ==
    pc = "otp" /\ code # None /\ code[2] = "12345678"

C13_FailedTunnelMeansDirect ==
    /\ [][pc = "proxy" => pc' = "launch" /\ exitCode' = 0 /\ failure' = ""]_vars
    /\ []("proxy_start_failed" \in entered =>
            /\ ~proxy_enabled
            /\ ~context_proxy
            /\ \A k \in DOMAIN sent : sent[k].route # "socks5")

\* C13: a run whose tunnel failed to start has sent to the relay and succeeded
C13_DirectRunSucceeded ==
    /\ "proxy_start_failed" \in entered
    /\ tg_ok /\ sent # <<>>
    /\ pc = "exited" /\ exitCode = 0

\* C14: a process that ends after the proxy start step, whatever the outcome,
\* has called Hysteria2Proxy.stop, leaves no tunnel running and no browser
\* open; stop leaves a dead or absent process as it is.
C14_CleanupOnEveryOutcome ==
    /\ pc = "exited" /\ failure # "missing_credentials" =>
          /\ "proxy_stop" \in entered
          /\ proxy_process # "running"
          /\ browser # "open"
    /\ \A p \in {"none", "dead", "stopped"} : hy2_stop(p) = p

\* C14: a run that failed while launching the browser, the tunnel running, has
\* ended with the tunnel stopped and the browser closed
C14_LaunchFailureCleanedUp ==
    pc = "exited" /\ failure = "launch" /\ proxy_process = "stopped" /\ browser = "closed"

\* C15: every step of a run moves it to a later position of run(), or is one
\* more pass of the loop it is in, whose counter stays within the loop's
\* budget (DEVICE_VERIFY_WAIT, TWO_FACTOR_WAIT passes, TWO_FACTOR_WAIT seconds
\* plus one last request and sleep, REDIRECT_WAIT, the selectors, the pages),
\* or is a message arriving at the bot; and a run that has not ended is never
\* stuck.  So no run goes on for ever.
C15_EveryWaitIsBounded ==
    /\ [](i <= (CASE pc = "wait_device" -> DEVICE_VERIFY_WAIT
                  [] pc = "wait_mobile" -> TWO_FACTOR_WAIT
                  [] pc = "wait_code" -> TWO_FACTOR_WAIT + LONG_POLL + POLL_SLEEP
                  [] pc = "otp" -> NUM_OTP_SELECTORS + 1
                  [] pc = "wait_redirect" -> REDIRECT_WAIT
                  [] pc = "visit" -> 3
                  [] OTHER -> i))
    /\ [](pc # "exited" => ENABLED Next)
    /\ [][LET order == << "start", "proxy", "launch", "signin", "click_github",
                          "login_github", "device_begin", "wait_device",
                          "after_device", "two_factor", "mobile_begin",
                          "wait_mobile", "code_begin", "flush", "wait_code", "otp",
                          "after_two_factor", "flash", "wait_redirect", "verify",
                          "keepalive", "visit", "save_cookie", "notify",
                          "close_browser", "playwright_exit", "stop_proxy",
                          "exited" >>
              stage(p) == CHOOSE k \in DOMAIN order : order[k] = p
          IN  \/ stage(pc') > stage(pc)
              \/ pc' = pc /\ i' > i
              \/ pc' = pc /\ i' = i /\ Len(updates') > Len(updates)]_vars

\* C15: a run whose device wait and redirect wait both used up their budgets
\* has ended
C15_BudgetsUsedUpAndEnded ==
    pc = "exited" /\ devRet = "budget" /\ failure = "redirect_timeout"

\* C16: with the username or the password missing, the first step ends the
\* run: exit code 1, one notify call, with failure, at most that one message
\* handed to the relay, no tunnel process, no browser, no location read and no
\* stage entered.
C16_MissingCredentialsNoRun ==
    ~creds =>
        \/ pc = "start"
        \/ /\ pc = "exited"
           /\ exitCode = 1
           /\ failure = "missing_credentials"
           /\ notified = <<FALSE>>
           /\ Len(sent) = (IF tg_ok THEN 1 ELSE 0)
           /\ proxy_process = "none"
           /\ browser = "none"
           /\ ~context_proxy
           /\ loc = BLANK
           /\ entered = {}

\* C16: a run without credentials has ended, the relay configured
C16_EndedWithoutCredentials ==
    ~creds /\ pc = "exited" /\ tg_ok /\ proxy_enabled

C17_AtMostTwoAttempts ==
    /\ [](/\ failure = "" /\ exitCode = 0
          /\ ~tg_ok => posts = <<>>
          /\ \A n \in 1..Len(sent) :
               LET made == SelectSeq(posts, LAMBDA p : p.call = n)
                   configured == IF proxy_enabled THEN "socks5" ELSE "direct"
               IN  /\ Len(made) <= 2
                   /\ sent[n].route = "not_sent" => made = <<>>
                   /\ Len(made) = 1 => made[1].route \in {configured, "direct"}
                   /\ Len(made) = 2 => /\ made[1].route = configured
                                       /\ made[2].route = "direct")
    /\ [][(/\ Len(posts') > Len(posts)
           /\ \E k \in 1..Len(posts) : posts[k].call = Len(sent))
          => pc = "tg_second" /\ pc' = "tg_idle"]_vars

\* C17: a photo call has posted through the tunnel, then direct, and returned
C17_ProxiedThenDirect ==
    /\ pc = "tg_idle"
    /\ \E k \in 1..(Len(posts) - 1) :
         /\ posts[k].call = posts[k + 1].call
         /\ posts[k].method = "sendPhoto"
         /\ posts[k].route = "socks5"
         /\ posts[k + 1].route = "direct"

\* C18: a keepalive page that could not be reached or did not settle never
\* aborts the run: every pass of the loop, failed or not, goes on to the next
\* page with no failure recorded, and a run in which a visit failed ends
\* having visited both pages, extracted the credential and sent the success
\* notification.
C18_FailedVisitNeverAborts ==
    /\ [][pc = "visit" /\ i <= Len(pages_to_visit(base_url))
          => /\ pc' = "visit" /\ i' = i + 1
             /\ Len(navs') = Len(navs) + 1
             /\ failure' = "" /\ exitCode' = 0 /\ notified' = <<>>]_vars
    /\ []("visit_failed" \in entered /\ pc = "exited"
          => /\ navs = pages_to_visit(base_url)
             /\ "get_session" \in entered
             /\ notified = <<TRUE>>
             /\ failure = "" /\ exitCode = 0)

\* C18: a run in which a keepalive visit failed has ended with a credential
\* extracted and the success notification sent
C18_FailedVisitThenSuccess ==
    /\ pc = "exited"
    /\ "visit_failed" \in entered /\ "redetect" \notin entered
    /\ new # None
    /\ notified = <<TRUE>>
    /\ tg_ok

C20_OneChallengeAtATime ==
    /\ [](LET TWO_FACTOR_HANDLERS == {"wait_two_factor_mobile", "handle_2fa_code_input"}
          IN  /\ ~(TWO_FACTOR_HANDLERS \subseteq entered)
              /\ pc \in {"device_begin", "wait_device", "after_device"}
                 => entered \cap TWO_FACTOR_HANDLERS = {}
              /\ (/\ pc \in {"mobile_begin", "wait_mobile", "code_begin", "flush",
                             "wait_code", "otp"}
                  /\ "wait_device" \in entered)
                 => devRet \in {"poll", "budget"})
    /\ [][entered \cap {"wait_two_factor_mobile", "handle_2fa_code_input"} # {}
          => pc' \notin {"device_begin", "wait_device", "after_device"}]_vars

\* C20: the device wait has returned and the code handler is waiting for the
\* human's code
C20_DeviceThenCode ==
    /\ pc = "wait_code"
    /\ "wait_device" \in entered
    /\ "handle_2fa_code_input" \in entered
    /\ devRet = "poll"

\* C21: detect_region(url) on a host made of a region label other than
\* 'console' and the suffix .console.claw.cloud returns the label and records
\* https://{host}; otherwise, on a host that names claw.cloud and a path that
\* carries a region code after /region/ or /r/, it returns that code and
\* records https://{code}.console.claw.cloud; otherwise it returns no
\* identifier, records {scheme}://{host} and leaves the identifier as it was.
C21_DetectRegionContract ==
    [][i' = i + 1 =>
         LET scheme == <<loc'[1]>>
             slash == FirstIn(Tail(Tail(loc')), {"/", "?", "#"}, 1)
             host == SubSeq(loc', 3, slash + 1)
             path == SubSeq(loc', slash + 2, Len(loc'))
             labelled == /\ Len(host) = 1 + Len(CONSOLE_SUFFIX)
                         /\ Tail(host) = CONSOLE_SUFFIX
                         /\ host[1] # "console"
             codes == { c \in REGION_CODES :
                          \E w \in {"region", "r"} : Contains(path, <<"/", w, "/", c>>) }
             on_platform == Contains(host, CLAW)
         IN  IF labelled
             THEN /\ region_ret' = <<host[1]>>
                  /\ detected_region' = <<host[1]>>
                  /\ region_base_url' = HTTPS \o host
             ELSE IF on_platform /\ codes # {}
             THEN /\ \E c \in codes :
                       /\ region_ret' = <<c>>
                       /\ detected_region' = <<c>>
                       /\ region_base_url' = HTTPS \o <<c>> \o CONSOLE_SUFFIX
             ELSE /\ region_ret' = None
                  /\ detected_region' = detected_region
                  /\ region_base_url' = scheme \o <<"://">> \o host]_vars

\* C21: the second call of a run took the region code from the path of a URL
\* on the main host
C21_RegionFromPath ==
    /\ pc = "detect_region"
    /\ loc = U_PATH_REGION
    /\ region_ret = <<"ap-southeast-1">>
    /\ region_base_url = HTTPS \o <<"ap-southeast-1">> \o CONSOLE_SUFFIX
    /\ i = 2

\* C22: when the location after the provider click is the
\* authorization-consent page, the run does not enter login_github.  run
\* tests 'github.com/login' first, which the consent URL contains, so the
\* consent branch is never taken and this fails.
C22_ConsentPageSkipsLogin ==
    pc = "login_github" /\ "click" \in entered => ~at_authorize(loc)

\* C23: a well-formed '/code <digits>' message the configured responder sent
\* after the code prompt was relayed is never passed over while wait_code is
\* still waiting.  wait_code flushes after the prompt has gone out, and a
\* flush that succeeds sets the offset past every update pending then, the
\* replies sent between the prompt and the flush included, so this fails.
C23_ReplyAfterPromptNotFlushed ==
    pc = "wait_code" =>
        \A k \in (nPrompt + 1)..Len(updates) :
            (updates[k].chat = CHAT_ID /\ code_match(strip(updates[k].text)) # None)
            => offset <= updates[k].update_id

\* C24: handle_2fa_code_input fills in and submits the received code at most
\* once.  The bare except around the body of the selector loop also catches
\* what is raised after the submit, and the loop goes on to the next
\* selector, so this fails.
C24_CodeSubmittedAtMostOnce ==
    submits <= 1

\* C25: while wait_two_factor_mobile polls, the page is reloaded only in a
\* pass whose number is a positive multiple of 30, so never before 30 passes
\* and their sleeps are over and at most once per 30 passes; a reminder
\* screenshot is taken once per 10 passes; and with the budget of 120 the
\* wait never reloads more than 3 times.
C25_ReloadsAreRare ==
    /\ [](pc = "wait_mobile"
          => /\ reloads <= 3
             /\ reloads * 30 <= i
             /\ reloads > 0 => i > 30
             /\ reminders = Cardinality({ k \in 1..(i - 1) : k % 10 = 0 }))
    /\ [][reloads' > reloads
          => /\ reloads' = reloads + 1
             /\ i >= 30 /\ i % 30 = 0
             /\ i' = i + 1]_vars

\* C25: the push wait has used up its budget of 120 passes
C25_ThreeReloadsInBudget ==
    /\ pc = "wait_mobile"
    /\ i = TWO_FACTOR_WAIT
    /\ reloads = 3
    /\ reminders = 11

\* C26: whenever a region identifier is recorded, the recorded base endpoint
\* is https://{identifier}.console.claw.cloud, the endpoint of that region.
\* A detect_region call without a match replaces the base endpoint by the
\* scheme and host it was given and keeps the identifier, so this fails.
C26_BaseEndpointOfRecordedRegion ==
    detected_region # None =>
        region_base_url = HTTPS \o detected_region \o CONSOLE_SUFFIX

\* C27: SecretUpdater.update and the cleartext relay of the credential are
\* each invoked at most once per run, and only on a run that goes on to the
\* success notification: a run in which save_cookie was entered never records
\* a failure, never exits non-zero, and ends with the success notification
\* as its only one.
C27_CredentialOnlyOnSuccess ==
    /\ [](LET about(tag) == SelectSeq(sent, LAMBDA m : Head(m.text) = tag)
          IN  /\ Len(about("cookie_cleartext")) + Len(about("cookie_updated")) <= 1
              /\ (stored # "" \/ about("cookie_cleartext") # <<>>
                              \/ about("cookie_updated") # <<>>)
                 => /\ "save_cookie" \in entered
                    /\ failure = "" /\ exitCode = 0
                    /\ FALSE \notin { notified[k] : k \in DOMAIN notified }
                    /\ pc = "exited" => notified = <<TRUE>>)
    /\ [][stored' # stored => stored = "" /\ pc = "save_cookie" /\ pc' = "notify"]_vars

\* C27: the update was refused, the credential went out in cleartext, and the
\* run ended with the success notification
C27_RelayedThenSucceeded ==
    /\ pc = "exited"
    /\ stored = "failed"
    /\ tg_ok
    /\ \E k \in DOMAIN sent : Head(sent[k].text) = "cookie_cleartext"
    /\ notified = <<TRUE>>
    /\ exitCode = 0

\* C28: on a run where SecretUpdater.update succeeded, no message handed to
\* the relay holds any part of the new credential, so that its messages are
\* the same whatever the credential's value.  save_cookie logs the first 15
\* and the last 8 characters of the value, and the status notification
\* carries the last log lines, so this fails.
C28_StoredCredentialNotRelayed ==
    stored = "stored" =>
        \A k \in DOMAIN sent : \A j \in DOMAIN sent[k].text :
            sent[k].text[j] \notin { new[n] : n \in DOMAIN new }

\* C29: every status notification is sent before the browser is closed and
\* before the tunnel is stopped, and one that is routed through the local
\* proxy is sent while the tunnel process is running.  The notification for
\* missing credentials goes out before proxy.start() is called, with the
\* proxy setting already enabled, so this fails.
C29_NotifiedWhileTunnelRuns ==
    [][Len(notified') > Len(notified)
       => /\ browser # "closed"
          /\ "proxy_stop" \notin entered
          /\ (tg_ok /\ get_proxies(proxy_enabled) = "socks5")
             => proxy_process = "running"]_vars

====
